---------------------------- MODULE Spec2Model ----------------------------
(***************************************************************************)
(* Model of the magnetic-circuit node-analysis package (emc):              *)
(*   emc/circuit.py   Circuit: node map, element list, model registry      *)
(*   emc/analysis.py  update_mur, make_system_matrix, solve_circuit        *)
(*   emc/components   Permeance, MMFSource, PHISource                      *)
(*                                                                         *)
(* The Circuit object is the state.  Every public method of Circuit is one *)
(* action; the outcome of the call (the exception raised, if any, and the  *)
(* value returned) is kept in the variable result, so that properties of   *)
(* return values and of error reporting can be stated.                     *)
(*                                                                         *)
(* Python floats are modelled as exact rationals <<num, den>>; permeances  *)
(* are expressed in units of mu0 * 1e-3.                                   *)
(***************************************************************************)
EXTENDS Integers, Sequences, FiniteSets, TLC

VARIABLES
    nodes_dict,   \* Circuit.nodes_dict: [s: name -> index, i: index -> name]
    elems,        \* the Circuit list itself: the sequence of elements
    models,       \* Circuit.models: label -> material model
    result        \* the outcome of the last call

vars == <<nodes_dict, elems, models, result>>

---------------------------------------------------------------------------
(* Bounds and input domains                                                *)

\* Longest element list explored.
MaxElems == 2

\* Circuit.gnd / get_ground_node(): the reserved name of the reference node.
gnd == "0"

\* Node names callers pass to create_node / add_node.
NodeNames == {"0", "a", "b"}

\* A further node name, used where only the node methods are exercised.
MoreNodeNames == NodeNames \cup {"c"}

\* Terminal pairs (n1, n2) callers pass to the add_* element methods: a
\* terminal at ground on either side, two distinct nodes, and n1 = n2.
TermPairs == {<<"a", "0">>, <<"0", "b">>, <<"a", "b">>, <<"a", "a">>}

\* Element identifiers callers pass as part_id.
PartIds == {"R1", "r1"}

\* Model labels callers pass to add_model / remove_model / add_permeance.
ModelLabels == {"m1"}

\* model_label=None (not a label).
None == "<None>"

\* model_type arguments of add_model ("BH" is the only supported one).
ModelTypes == {"BH", "XX"}

\* B-H table files: a readable, well-formed one and an unusable one.
GoodFile == "35PN210.tab"

BadFile == "empty.tab"

\* Source values (MMFSource.value, PHISource.value).
SourceValues == {2}

\* Permeance arguments: relative permeability, and <<width, depth, length>>
\* (one admissible geometry, and one with each of w, d, l zero).
MurValues == {1}

Geometries == {<<1, 3, 2>>, <<0, 3, 2>>, <<1, 0, 2>>, <<1, 3, 0>>}

---------------------------------------------------------------------------
(* Python dict helpers: a dict is a function on its key set                *)

EmptyDict == [k \in {} |-> 0]

\* d.update({k: v})
DictUpdate(d, k, v) == [x \in (DOMAIN d) \cup {k} |-> IF x = k THEN v ELSE d[x]]

\* del d[k]
DictDel(d, k) == [x \in (DOMAIN d) \ {k} |-> d[x]]

\* len(self.nodes_dict): string keys and integer keys together
DictLen(nd) == Cardinality(DOMAIN nd.s) + Cardinality(DOMAIN nd.i)

---------------------------------------------------------------------------
(* Circuit: nodes                                                          *)

\* Circuit.get_nodes_number
get_nodes_number(nd) == DictLen(nd) \div 2

\* NewIndex without the correction for a missing reference node: every
\* non-ground name gets len / 2 + 1.
NewIndexIgnoringRef(nd, name) ==
    IF name = "0" THEN 0 ELSE (DictLen(nd) \div 2) + 1

\* The index a new name receives (the branch shared by create_node and add_node).
NewIndex(nd, name) ==
    LET got_ref == 0 \in DOMAIN nd.i
    IN  IF name = "0" THEN 0
        ELSE (DictLen(nd) \div 2) + (IF got_ref THEN 0 ELSE 1)

\* self.nodes_dict.update({int_node: name}); self.nodes_dict.update({name: int_node})
Register(nd, name, int_node) ==
    [s |-> DictUpdate(nd.s, name, int_node), i |-> DictUpdate(nd.i, int_node, name)]

\* Circuit.create_node: the node map after the call and its outcome
create_node(nd, name) ==
    IF name \notin DOMAIN nd.s
    THEN [nd |-> Register(nd, name, NewIndex(nd, name)), err |-> "none", ret |-> <<name>>]
    ELSE [nd |-> nd, err |-> "ValueError", ret |-> <<>>]

\* add_node without the test "do we already have it in the dictionary?"
add_node_unchecked(nd, ext_name) ==
    LET int_node == NewIndex(nd, ext_name)
    IN  [nd |-> Register(nd, ext_name, int_node), ret |-> int_node]

\* Circuit.add_node: the node map after the call and the index returned
add_node(nd, ext_name) ==
    IF ext_name \notin DOMAIN nd.s
    THEN LET int_node == NewIndex(nd, ext_name)
         IN  [nd |-> Register(nd, ext_name, int_node), ret |-> int_node]
    ELSE [nd |-> nd, ret |-> nd.s[ext_name]]

---------------------------------------------------------------------------
(* Exact rational arithmetic for Python floats: <<num, den>>, den > 0,     *)
(* in lowest terms                                                         *)

RECURSIVE GCD(_, _)
GCD(a, b) == IF b = 0 THEN a ELSE GCD(b, a % b)

IAbs(a) == IF a < 0 THEN -a ELSE a

RNorm(n, d) ==
    LET g == GCD(IAbs(n), IAbs(d))
        sg == IF d < 0 THEN -1 ELSE 1
    IN  <<(sg * n) \div g, (sg * d) \div g>>

RInt(k) == <<k, 1>>

RZero == RInt(0)

ROne == RInt(1)

RAdd(p, q) == RNorm(p[1] * q[2] + q[1] * p[2], p[2] * q[2])

RNeg(p) == <<-p[1], p[2]>>

RSub(p, q) == RAdd(p, RNeg(q))

\* p * q, the common factors of opposite terms cancelled before multiplying
RMul(p, q) ==
    LET g1 == GCD(IAbs(p[1]), q[2])
        g2 == GCD(IAbs(q[1]), p[2])
    IN  RNorm((p[1] \div g1) * (q[1] \div g2), (p[2] \div g2) * (q[2] \div g1))

\* p / q for q # 0
RDiv(p, q) == RMul(p, IF q[1] < 0 THEN <<-q[2], -q[1]>> ELSE <<q[2], q[1]>>)

RAbs(p) == <<IAbs(p[1]), p[2]>>

RPos(p) == p[1] > 0

---------------------------------------------------------------------------
(* Components                                                              *)

\* Permeance.__init__ (Component.__init__ sets part_id, n1, n2)
Permeance(part_id, n1, n2, mur, w, d, l, model_label) ==
    [kind |-> "Permeance", part_id |-> part_id, n1 |-> n1, n2 |-> n2,
     mur |-> RInt(mur), mur_d |-> RInt(mur), w |-> w, d |-> d, l |-> l,
     model_label |-> model_label]

\* MMFSource.__init__
MMFSource(part_id, n1, n2, value) ==
    [kind |-> "MMFSource", part_id |-> part_id, n1 |-> n1, n2 |-> n2, value |-> value]

\* PHISource.__init__
PHISource(part_id, n1, n2, value) ==
    [kind |-> "PHISource", part_id |-> part_id, n1 |-> n1, n2 |-> n2, value |-> value]

\* Permeance.P, in units of mu0 * 1e-3
P(e) == RDiv(RMul(e.mur, RInt(e.w * e.d)), RInt(e.l))

\* Permeance.dP, in units of mu0 * 1e-3
dP(e) == RDiv(RMul(e.mur_d, RInt(e.w * e.d)), RInt(e.l))

---------------------------------------------------------------------------
(* Circuit: elements and models                                            *)

\* Circuit.get_MMFs_number
get_MMFs_number(es) == Cardinality({i \in 1..Len(es) : es[i].kind = "MMFSource"})

\* Circuit.has_duplicate_elem
has_duplicate_elem(es) ==
    Cardinality({es[i].part_id : i \in 1..Len(es)}) # Len(es)

\* hb(1) / mu0 of the curve tabulated in each readable B-H file
FileHb1 == [f \in {GoodFile} |-> 5]

\* non_linear_bh.bh_model: the fitted curve is represented by its value at
\* the nominal unit field, hb(1) / mu0.
bh_model(name, file_name) == [name |-> name, hb1 |-> FileHb1[file_name]]

\* Circuit.add_model: the registry after the call and its outcome
add_model(ms, model_type, model_label, file_name) ==
    IF model_type = "BH"
    THEN IF file_name \in DOMAIN FileHb1
         THEN [models |-> DictUpdate(ms, model_label, bh_model(model_label, file_name)),
               err |-> "none"]
         ELSE [models |-> ms, err |-> "Exception"]
    ELSE [models |-> ms, err |-> "CircuitError"]

\* Circuit.remove_model
remove_model(ms, model_label) ==
    IF model_label \in DOMAIN ms THEN DictDel(ms, model_label) ELSE ms

\* The validation of add_permeance without the test of the length l
permeance_error_ignoring_l(ms, w, d, l, model_label) ==
    IF w = 0 \/ d = 0 THEN "CircuitError"
    ELSE IF model_label # None /\ model_label \notin DOMAIN ms THEN "ModelError"
    ELSE "none"

\* The validation of Circuit.add_permeance, after both add_node calls
permeance_error(ms, w, d, l, model_label) ==
    IF w = 0 \/ d = 0 \/ l = 0 THEN "CircuitError"
    ELSE IF model_label # None /\ model_label \notin DOMAIN ms THEN "ModelError"
    ELSE "none"

---------------------------------------------------------------------------
(* Material model (non_linear_bh.bh_model)                                 *)

\* self.hb(H) / mu0 for H > 0.  The cubic spline through the table is
\* represented by the slope-mu0 line of its synthetic extension points,
\* taken from the nominal unit field on.
hb(model, H) == RAdd(RInt(model.hb1 - 1), H)

\* bh_model.mur
bh_mur(model, H) == IF RPos(H) THEN RDiv(hb(model, H), H) ELSE RInt(model.hb1)

\* self.hu(H) / mu0: the second spline, through the points (H, B / H)
hu(model, H) == IF RPos(H) THEN RDiv(hb(model, H), H) ELSE RInt(model.hb1)

\* fp(self.hu, H) / mu0 = bh_model.dmu_dH(H) / mu0: forward difference, eps = 1e-3
dmu_dH(model, H) ==
    LET eps == <<1, 1000>>
    IN  RDiv(RSub(hu(model, RAdd(H, eps)), hu(model, H)), eps)

\* bh_model.mur_d
bh_mur_d(model, H) == RAdd(bh_mur(model, H), RMul(dmu_dH(model, H), H))

---------------------------------------------------------------------------
(* numpy arrays: a vector is a function on 0..n-1, a matrix on pairs       *)

Zeros(n) == [i \in 0..(n - 1) |-> RZero]

ZerosMat(n) == [ij \in (0..(n - 1)) \X (0..(n - 1)) |-> RZero]

\* numpy accepts an index i of an axis of length n when -n <= i < n
InRange(i, n) == i >= -n /\ i < n

\* a negative index counts from the end
Wrap(i, n) == IF i < 0 THEN i + n ELSE i

---------------------------------------------------------------------------
(* Permeance field quantities                                              *)

\* Permeance.MMF(ports_v): u1 - u2, or IndexError
MMF(e, x, n) ==
    LET n1 == e.n1 - 1
        n2 == e.n2 - 1
    IN  IF (n1 >= 0 /\ ~InRange(n1, n)) \/ (n2 >= 0 /\ ~InRange(n2, n))
        THEN [err |-> "IndexError", val |-> RZero]
        ELSE [err |-> "none",
              val |-> RSub(IF n1 >= 0 THEN x[n1] ELSE RZero,
                           IF n2 >= 0 THEN x[n2] ELSE RZero)]

\* Permeance.H(ports_v): MMF / l * 1000
H(e, x, n) ==
    LET m == MMF(e, x, n)
    IN  [err |-> m.err, val |-> RMul(RDiv(m.val, RInt(e.l)), RInt(1000))]

\* Permeance.PHI(ports_v): MMF * P
PHI(e, x, n) ==
    LET m == MMF(e, x, n)
    IN  [err |-> m.err, val |-> RMul(m.val, P(e))]

---------------------------------------------------------------------------
(* analysis.update_mur                                                     *)

\* The loop of update_mur from element i on: the element list as mutated so
\* far, and the exception that stopped the loop, if any.
RECURSIVE update_mur_from(_, _, _, _, _)
update_mur_from(es, ms, x, n, i) ==
    IF i > Len(es) THEN [elems |-> es, err |-> "none"]
    ELSE LET elem == es[i]
         IN  IF elem.kind = "Permeance" /\ elem.model_label # None
             THEN IF elem.model_label \notin DOMAIN ms
                  THEN [elems |-> es, err |-> "KeyError"]
                  ELSE LET model == ms[elem.model_label]
                           h == H(elem, x, n)
                       IN  IF h.err # "none"
                           THEN [elems |-> es, err |-> h.err]
                           ELSE update_mur_from(
                                    [es EXCEPT ![i].mur = bh_mur(model, RAbs(h.val)),
                                               ![i].mur_d = bh_mur_d(model, RAbs(h.val))],
                                    ms, x, n, i + 1)
             ELSE update_mur_from(es, ms, x, n, i + 1)

\* update_mur that also overwrites the unbound permeances, with the default
\* mur of the Permeance class
update_mur_all(es, ms, x, n) ==
    LET r == update_mur_from(es, ms, x, n, 1)
    IN  [r EXCEPT !.elems =
            [i \in 1..Len(r.elems) |->
                IF r.elems[i].kind = "Permeance" /\ r.elems[i].model_label = None
                THEN [r.elems[i] EXCEPT !.mur = RInt(3000), !.mur_d = RInt(3000)]
                ELSE r.elems[i]]]

update_mur(es, ms, x, n) == update_mur_from(es, ms, x, n, 1)

---------------------------------------------------------------------------
(* analysis.make_system_matrix                                             *)
(* The assembly state st is [A, dA, b, index, aux, err, bug]: the three    *)
(* arrays, the next auxiliary index, the indices given to the MMF sources  *)
(* so far, the exception raised so far ("none" if none) and whether        *)
(* "BUG - Unknown linear element." was printed.                            *)

\* A[i, j] = A[i, j] + v; dA[i, j] = dA[i, j] + dv
AddAt(st, n, i, j, v, dv) ==
    IF st.err # "none" THEN st
    ELSE IF ~(InRange(i, n) /\ InRange(j, n)) THEN [st EXCEPT !.err = "IndexError"]
    ELSE LET ij == <<Wrap(i, n), Wrap(j, n)>>
         IN  [st EXCEPT !.A[ij] = RAdd(@, v), !.dA[ij] = RAdd(@, dv)]

\* A[i, j] = v; dA[i, j] = v
SetAt(st, n, i, j, v) ==
    IF st.err # "none" THEN st
    ELSE IF ~(InRange(i, n) /\ InRange(j, n)) THEN [st EXCEPT !.err = "IndexError"]
    ELSE LET ij == <<Wrap(i, n), Wrap(j, n)>>
         IN  [st EXCEPT !.A[ij] = v, !.dA[ij] = v]

\* b[i, 0] = b[i, 0] + v
AddB(st, n, i, v) ==
    IF st.err # "none" THEN st
    ELSE IF ~InRange(i, n) THEN [st EXCEPT !.err = "IndexError"]
    ELSE [st EXCEPT !.b[Wrap(i, n)] = RAdd(@, v)]

\* b[i, 0] = v
SetB(st, n, i, v) ==
    IF st.err # "none" THEN st
    ELSE IF ~InRange(i, n) THEN [st EXCEPT !.err = "IndexError"]
    ELSE [st EXCEPT !.b[Wrap(i, n)] = v]

\* The Permeance branch of the first loop
StampPermeance(st, elem, n) ==
    LET n1 == elem.n1 - 1
        n2 == elem.n2 - 1
        s1 == IF n1 >= 0 THEN AddAt(st, n, n1, n1, P(elem), dP(elem)) ELSE st
        s2 == IF n2 >= 0 THEN AddAt(s1, n, n2, n2, P(elem), dP(elem)) ELSE s1
    IN  IF n1 >= 0 /\ n2 >= 0
        THEN AddAt(AddAt(s2, n, n1, n2, RNeg(P(elem)), RNeg(dP(elem))),
                   n, n2, n1, RNeg(P(elem)), RNeg(dP(elem)))
        ELSE s2

\* The PHISource branch of the first loop
StampPHISource(st, elem, n) ==
    LET n1 == elem.n1 - 1
        n2 == elem.n2 - 1
        s1 == IF n1 >= 0 THEN AddB(st, n, n1, RInt(elem.value)) ELSE st
    IN  IF n2 >= 0 THEN AddB(s1, n, n2, RNeg(RInt(elem.value))) ELSE s1

\* One pass of the body of the first loop: the dispatch on the element kind
StampElem(st, elem, n) ==
    IF st.err # "none" THEN st
    ELSE IF elem.kind = "Permeance" THEN StampPermeance(st, elem, n)
    ELSE IF elem.kind = "PHISource" THEN StampPHISource(st, elem, n)
    ELSE IF elem.kind = "MMFSource" THEN st
    ELSE [st EXCEPT !.bug = TRUE]

\* One pass of the body of the second loop: the lines of an MMF source
StampMMF(st, elem, n) ==
    IF st.err # "none" \/ elem.kind # "MMFSource" THEN st
    ELSE LET n1 == elem.n1 - 1
             n2 == elem.n2 - 1
             index == st.index
             k1 == IF n1 >= 0 THEN SetAt(st, n, n1, index, ROne) ELSE st
             k2 == IF n2 >= 0 THEN SetAt(k1, n, n2, index, RNeg(ROne)) ELSE k1
             k3 == IF n1 >= 0 THEN SetAt(k2, n, index, n1, ROne) ELSE k2
             k4 == IF n2 >= 0 THEN SetAt(k3, n, index, n2, RNeg(ROne)) ELSE k3
             k5 == SetB(k4, n, index, RInt(elem.value))
         IN  IF k5.err # "none" THEN k5
             ELSE [k5 EXCEPT !.index = index + 1, !.aux = Append(@, index)]

RECURSIVE FirstLoop(_, _, _, _)
FirstLoop(st, es, n, i) ==
    IF i > Len(es) THEN st ELSE FirstLoop(StampElem(st, es[i], n), es, n, i + 1)

RECURSIVE SecondLoop(_, _, _, _)
SecondLoop(st, es, n, i) ==
    IF i > Len(es) THEN st ELSE SecondLoop(StampMMF(st, es[i], n), es, n, i + 1)

\* A.dot(u_prev)
Dot(A, x, n) ==
    LET RECURSIVE Row(_, _)
        Row(i, j) == IF j >= n THEN RZero ELSE RAdd(RMul(A[<<i, j>>], x[j]), Row(i, j + 1))
    IN  [i \in 0..(n - 1) |-> Row(i, 0)]

\* make_system_matrix(circ, u_prev), u_prev of shape (n, 1): the element
\* list as left by update_mur, the exception raised if any, the returned pair
\* (dA, b), and the internal A, the right-hand side b_src before
\* b - A.dot(u_prev), and the auxiliary indices in element-list order.
make_system_matrix(nd, es, ms, u_prev, n) ==
    LET upd == update_mur(es, ms, u_prev, n)
        st0 == [A |-> ZerosMat(n), dA |-> ZerosMat(n), b |-> Zeros(n),
                index |-> get_nodes_number(nd) - 1, aux |-> <<>>,
                err |-> upd.err, bug |-> FALSE]
        st1 == FirstLoop(st0, upd.elems, n, 1)
        st2 == SecondLoop(st1, upd.elems, n, 1)
    IN  IF st2.err # "none"
        THEN [elems |-> upd.elems, err |-> st2.err, bug |-> st2.bug]
        ELSE [elems |-> upd.elems, err |-> "none", bug |-> st2.bug,
              A |-> st2.A, dA |-> st2.dA, b_src |-> st2.b, aux |-> st2.aux,
              b |-> [i \in 0..(n - 1) |-> RSub(st2.b[i], Dot(st2.A, u_prev, n)[i])]]

\* solve_circuit, step 1: the size of the unknown vector
n_matrix_size(nd, es) == get_nodes_number(nd) + get_MMFs_number(es) - 1

---------------------------------------------------------------------------
(* Actions                                                                 *)

Init ==
    /\ nodes_dict = [s |-> EmptyDict, i |-> EmptyDict]
    /\ elems = <<>>
    /\ models = EmptyDict
    /\ result = [op |-> "__init__", err |-> "none", ret |-> <<>>]

CreateNode(name) ==
    LET r == create_node(nodes_dict, name)
    IN  /\ nodes_dict' = r.nd
        /\ result' = [op |-> "create_node", arg |-> name, err |-> r.err, ret |-> r.ret]
        /\ UNCHANGED <<elems, models>>

AddNode(name) ==
    LET r == add_node(nodes_dict, name)
    IN  /\ nodes_dict' = r.nd
        /\ result' = [op |-> "add_node", arg |-> name, err |-> "none", ret |-> <<r.ret>>]
        /\ UNCHANGED <<elems, models>>

AddModel(model_type, model_label, file_name) ==
    LET r == add_model(models, model_type, model_label, file_name)
    IN  /\ models' = r.models
        /\ result' = [op |-> "add_model", err |-> r.err, ret |-> <<>>]
        /\ UNCHANGED <<nodes_dict, elems>>

RemoveModel(model_label) ==
    /\ models' = remove_model(models, model_label)
    /\ result' = [op |-> "remove_model", err |-> "none", ret |-> <<>>]
    /\ UNCHANGED <<nodes_dict, elems>>

AddPermeance(part_id, n1, n2, mur, w, d, l, model_label) ==
    LET r1 == add_node(nodes_dict, n1)
        r2 == add_node(r1.nd, n2)
        err == permeance_error(models, w, d, l, model_label)
    IN  /\ Len(elems) < MaxElems
        /\ nodes_dict' = r2.nd
        /\ elems' = IF err = "none"
                    THEN Append(elems, Permeance(part_id, r1.ret, r2.ret, mur, w, d, l,
                                                 model_label))
                    ELSE elems
        /\ result' = [op |-> "add_permeance", err |-> err, ret |-> <<>>]
        /\ UNCHANGED models

AddMMFSource(part_id, n1, n2, value) ==
    LET r1 == add_node(nodes_dict, n1)
        r2 == add_node(r1.nd, n2)
    IN  /\ Len(elems) < MaxElems
        /\ nodes_dict' = r2.nd
        /\ elems' = Append(elems, MMFSource(part_id, r1.ret, r2.ret, value))
        /\ result' = [op |-> "add_mmf_source", err |-> "none", ret |-> <<>>]
        /\ UNCHANGED models

AddPHISource(part_id, n1, n2, value) ==
    LET r1 == add_node(nodes_dict, n1)
        r2 == add_node(r1.nd, n2)
    IN  /\ Len(elems) < MaxElems
        /\ nodes_dict' = r2.nd
        /\ elems' = Append(elems, PHISource(part_id, r1.ret, r2.ret, value))
        /\ result' = [op |-> "add_phi_source", err |-> "none", ret |-> <<>>]
        /\ UNCHANGED models

\* solve_circuit up to the end of its first make_system_matrix call: x is
\* allocated as zeros((n_matrix_size, 1)) (ValueError for a negative size)
\* and the system is assembled at x.
SolveCircuitAssemble ==
    \E n \in {n_matrix_size(nodes_dict, elems)} :
      \E r \in {make_system_matrix(nodes_dict, elems, models, Zeros(n), n)} :
        /\ elems' = IF n < 0 THEN elems ELSE r.elems
        /\ result' = IF n < 0
                     THEN [op |-> "solve_circuit", err |-> "ValueError", ret |-> <<>>,
                           n |-> n]
                     ELSE IF r.err # "none"
                     THEN [op |-> "make_system_matrix", err |-> r.err, ret |-> <<>>,
                           n |-> n, bug |-> r.bug]
                     ELSE [op |-> "make_system_matrix", err |-> "none", ret |-> <<>>,
                           n |-> n, bug |-> r.bug, A |-> r.A, dA |-> r.dA,
                           b_src |-> r.b_src, b |-> r.b, aux |-> r.aux]
        /\ UNCHANGED <<nodes_dict, models>>

Next ==
    \/ \E name \in NodeNames : CreateNode(name)
    \/ \E name \in NodeNames : AddNode(name)
    \/ \E t \in ModelTypes, lab \in ModelLabels, f \in {GoodFile, BadFile} :
           AddModel(t, lab, f)
    \/ \E lab \in ModelLabels : RemoveModel(lab)
    \/ \E id \in PartIds, t \in TermPairs, mur \in MurValues, g \in Geometries,
          lab \in ModelLabels \cup {None} :
           AddPermeance(id, t[1], t[2], mur, g[1], g[2], g[3], lab)
    \/ \E id \in PartIds, t \in TermPairs, v \in SourceValues :
           AddMMFSource(id, t[1], t[2], v)
    \/ \E id \in PartIds, t \in TermPairs, v \in SourceValues :
           AddPHISource(id, t[1], t[2], v)
    \/ SolveCircuitAssemble

Spec == Init /\ [][Next]_vars

\* The node methods alone, over one more name.
NextNodes ==
    \/ \E name \in MoreNodeNames : CreateNode(name)
    \/ \E name \in MoreNodeNames : AddNode(name)

SpecNodes == Init /\ [][NextNodes]_vars

\* The model registry and add_permeance alone, between fewer terminals.
PermTermPairs == {<<"a", "0">>, <<"a", "b">>}

NextPermeance ==
    \/ \E t \in ModelTypes, lab \in ModelLabels, f \in {GoodFile, BadFile} :
           AddModel(t, lab, f)
    \/ \E lab \in ModelLabels : RemoveModel(lab)
    \/ \E id \in PartIds, t \in PermTermPairs, mur \in MurValues, g \in Geometries,
          lab \in ModelLabels \cup {None} :
           AddPermeance(id, t[1], t[2], mur, g[1], g[2], g[3], lab)

SpecPermeance == Init /\ [][NextPermeance]_vars

---------------------------------------------------------------------------
(* Properties                                                              *)

\* The names in the node map other than the ground name
NonGroundNames == DOMAIN nodes_dict.s \ {gnd}

\* The number of nodes excluding ground
NonGroundCount == Cardinality(NonGroundNames)

\* The MMF sources of the element list, in list order
MMFSources == SelectSeq(elems, LAMBDA e : e.kind = "MMFSource")

\* The last call assembled the system and returned it
Assembled == result.op = "make_system_matrix" /\ result.err = "none"

\* C1: whenever solve_circuit sizes the unknown vector of a circuit that has
\* at least one element, the size is the number of non-ground nodes plus the
\* number of MMFSource elements.
C1_UnknownCount ==
    (result.op \in {"solve_circuit", "make_system_matrix"} /\ elems # <<>>)
        => result.n = NonGroundCount + Len(MMFSources)

\* C2: in an assembled system the j-th MMFSource in element-list order
\* (j = 0, 1, ...) has the auxiliary index (number of non-ground nodes) + j,
\* so the auxiliary indices lie after the node-potential indices
\* 0 .. (number of non-ground nodes) - 1 and are pairwise distinct.
C2_AuxIndex ==
    Assembled =>
        /\ Len(result.aux) = Len(MMFSources)
        /\ \A j \in 1..Len(result.aux) : result.aux[j] = NonGroundCount + (j - 1)

\* The node map is a bijection: the two directions are inverse to each other,
\* ground has index 0, and the non-ground names map exactly onto 1..k.
NodeMapBijection ==
    /\ \A x \in DOMAIN nodes_dict.s :
           nodes_dict.s[x] \in DOMAIN nodes_dict.i /\ nodes_dict.i[nodes_dict.s[x]] = x
    /\ \A k \in DOMAIN nodes_dict.i :
           nodes_dict.i[k] \in DOMAIN nodes_dict.s /\ nodes_dict.s[nodes_dict.i[k]] = k
    /\ gnd \in DOMAIN nodes_dict.s => nodes_dict.s[gnd] = 0
    /\ {nodes_dict.s[x] : x \in NonGroundNames} = 1..NonGroundCount
    /\ \A x, y \in DOMAIN nodes_dict.s : nodes_dict.s[x] = nodes_dict.s[y] => x = y

\* A step keeps the index of every name already present, and gives a
\* non-ground name it adds an index above those of all earlier names.
FirstAppearanceOrder ==
    /\ \A x \in DOMAIN nodes_dict.s :
           x \in DOMAIN nodes_dict'.s /\ nodes_dict'.s[x] = nodes_dict.s[x]
    /\ \A y \in (DOMAIN nodes_dict'.s) \ (DOMAIN nodes_dict.s \cup {gnd}) :
           \A x \in DOMAIN nodes_dict.s : nodes_dict'.s[y] > nodes_dict.s[x]

\* C3: after any interleaving of create_node and add_node calls (ground
\* first, later or never) the name-to-index map is a bijection: ground maps
\* to 0, the non-ground names map exactly onto 1..k in order of first
\* appearance, and no two names share an index.
C3_NodeBijection == []NodeMapBijection /\ [][FirstAppearanceOrder]_vars

\* C3 witness: ground and three non-ground names are present, the names
\* first seen in the order b, c, a hold the indices 1, 2, 3, and the last of
\* them was just created.
C3_Witness ==
    /\ DOMAIN nodes_dict.s = {"0", "a", "b", "c"}
    /\ nodes_dict.s["b"] = 1
    /\ nodes_dict.s["c"] = 2
    /\ nodes_dict.s["a"] = 3
    /\ result.op = "create_node"
    /\ result.arg = "a"

\* C4: add_node is idempotent: after add_node(name) has returned an index, a
\* second add_node(name) returns the same index and leaves the node map, and
\* with it get_nodes_number(), unchanged.
C4_AddNodeIdempotent ==
    result.op = "add_node" =>
        LET second == add_node(nodes_dict, result.arg)
        IN  /\ second.ret = result.ret[1]
            /\ second.nd = nodes_dict
            /\ get_nodes_number(second.nd) = get_nodes_number(nodes_dict)

\* C4 witness: add_node has just returned index 2 for a name added after
\* ground and another node.
C4_Witness ==
    /\ result.op = "add_node"
    /\ result.ret = <<2>>
    /\ gnd \in DOMAIN nodes_dict.s
    /\ get_nodes_number(nodes_dict) = 3

\* C5: create_node(name) raises ValueError and leaves the node map unchanged
\* whenever name is already present, except for the ground name, for which a
\* create_node call never raises.
C5_CreateNodeExisting ==
    /\ \A name \in NonGroundNames :
           LET r == create_node(nodes_dict, name)
           IN  r.err = "ValueError" /\ r.nd = nodes_dict
    /\ (result.op = "create_node" /\ result.arg = gnd) => result.err = "none"

\* The arguments of an add_permeance call are rejected: a zero w, d or l, or
\* a model_label that is neither None nor a key of the registry.
Rejected(w, d, l, model_label) ==
    \/ w = 0 \/ d = 0 \/ l = 0
    \/ (model_label # None /\ model_label \notin DOMAIN models)

\* The outcome C6 requires of a step that is the call
\* add_permeance(part_id, n1, n2, mur, w, d, l, model_label).
AddPermeanceOutcome(part_id, mur, w, d, l, model_label) ==
    IF Rejected(w, d, l, model_label)
    THEN result'.err # "none" /\ elems' = elems
    ELSE /\ result'.err = "none"
         /\ Len(elems') = Len(elems) + 1
         /\ SubSeq(elems', 1, Len(elems)) = elems
         /\ LET e == elems'[Len(elems')]
            IN  /\ e.kind = "Permeance"
                /\ e.part_id = part_id
                /\ e.w = w /\ e.d = d /\ e.l = l
                /\ e.model_label = model_label

\* C6: add_permeance raises and appends no element whenever one of w, d, l
\* is zero or model_label is non-null and not a key of the model registry at
\* the time of the call; otherwise it appends exactly one Permeance at the
\* end of the element list.
C6_AddPermeanceValidation ==
    [][\A id \in PartIds, t \in TermPairs, mur \in MurValues, g \in Geometries,
          lab \in ModelLabels \cup {None} :
            AddPermeance(id, t[1], t[2], mur, g[1], g[2], g[3], lab)
                => AddPermeanceOutcome(id, mur, g[1], g[2], g[3], lab)]_vars

\* C6 witness: after a permeance bound to a registered model was appended and
\* the model was removed, a call naming a model was rejected with ModelError,
\* the list still holding that one element.
C6_Witness ==
    /\ result.op = "add_permeance"
    /\ result.err = "ModelError"
    /\ Len(elems) = 1
    /\ elems[1].kind = "Permeance"
    /\ elems[1].model_label \in ModelLabels
    /\ models = EmptyDict

\* No Permeance of the circuit names a model that is not in the registry
NoDanglingModel ==
    \A i \in 1..Len(elems) :
        elems[i].kind = "Permeance" =>
            (elems[i].model_label = None \/ elems[i].model_label \in DOMAIN models)

\* C7: whenever a solve assembles the system, every Permeance has
\* model_label None or a key of the model registry, and the lookup of
\* update_mur has not failed on a missing key.
C7_NoDanglingModel ==
    result.op = "make_system_matrix" => (NoDanglingModel /\ result.err # "KeyError")

\* C8: element identifiers are unique within a circuit: has_duplicate_elem()
\* is false in every circuit built through the add_* methods.
C8_UniquePartIds == ~has_duplicate_elem(elems)

\* 1 if c holds, else 0
Ind(c) == IF c THEN 1 ELSE 0

\* Sum of f[q] over q in 1..m, f a sequence of rationals
RECURSIVE RSum(_, _)
RSum(f, m) == IF m = 0 THEN RZero ELSE RAdd(f[m], RSum(f, m - 1))

\* The coefficient with which the reference stamp
\*   M[n1,n1] += P; M[n2,n2] += P; M[n1,n2] -= P; M[n2,n1] -= P
\* of a permeance e enters M[i, j], terms at ground dropped
RefPermeanceCoef(e, i, j) ==
    LET n1 == e.n1 - 1
        n2 == e.n2 - 1
    IN  Ind(n1 >= 0 /\ i = n1 /\ j = n1) + Ind(n2 >= 0 /\ i = n2 /\ j = n2)
        - Ind(n1 >= 0 /\ n2 >= 0 /\ i = n1 /\ j = n2)
        - Ind(n1 >= 0 /\ n2 >= 0 /\ i = n2 /\ j = n1)

\* The coefficient with which the reference stamp
\*   M[n1,k] += 1; M[n2,k] -= 1; M[k,n1] += 1; M[k,n2] -= 1
\* of an MMF source e with auxiliary index k enters M[i, j]
RefMMFCoef(e, k, i, j) ==
    LET n1 == e.n1 - 1
        n2 == e.n2 - 1
    IN  Ind(n1 >= 0 /\ i = n1 /\ j = k) - Ind(n2 >= 0 /\ i = n2 /\ j = k)
        + Ind(n1 >= 0 /\ i = k /\ j = n1) - Ind(n2 >= 0 /\ i = k /\ j = n2)

\* The permeances of the element list, in list order
Permeances == SelectSeq(elems, LAMBDA e : e.kind = "Permeance")

\* The flux sources of the element list, in list order
PHISources == SelectSeq(elems, LAMBDA e : e.kind = "PHISource")

\* Entry [i, j] of the reference operating-point matrix of the permeances
RefPermeanceA(i, j) ==
    RSum([q \in 1..Len(Permeances) |->
             RMul(RInt(RefPermeanceCoef(Permeances[q], i, j)), P(Permeances[q]))],
         Len(Permeances))

\* Entry [i, j] of the reference differential matrix of the permeances
RefPermeanceDA(i, j) ==
    RSum([q \in 1..Len(Permeances) |->
             RMul(RInt(RefPermeanceCoef(Permeances[q], i, j)), dP(Permeances[q]))],
         Len(Permeances))

\* Entry [i, j] contributed by the MMF sources, the q-th one at index aux[q]
RefMMFA(aux, i, j) ==
    RSum([q \in 1..Len(MMFSources) |-> RInt(RefMMFCoef(MMFSources[q], aux[q], i, j))],
         Len(MMFSources))

\* Entry i of the reference right-hand side before the residual adjustment:
\* b[n1] += value; b[n2] -= value for a flux source, b[k] = value for an MMF
\* source
RefB(aux, i) ==
    RAdd(RSum([q \in 1..Len(PHISources) |->
                  RInt(PHISources[q].value
                       * (Ind(PHISources[q].n1 - 1 = i) - Ind(PHISources[q].n2 - 1 = i)))],
              Len(PHISources)),
         RSum([q \in 1..Len(MMFSources) |-> RInt(MMFSources[q].value * Ind(aux[q] = i))],
              Len(MMFSources)))

\* The entries [n1,n1], [n2,n2], [n1,n2], [n2,n1] of the permeances, those
\* with a row or column at ground dropped
PermeanceEntries ==
    UNION {LET t == {Permeances[q].n1 - 1, Permeances[q].n2 - 1} \ {-1}
           IN  t \X t : q \in 1..Len(Permeances)}

\* C9: in an assembled system the operating-point matrix holds, at every
\* entry [n1,n1], [n2,n2], [n1,n2], [n2,n1] of a permeance (terms at ground
\* dropped), the sum over all permeances of +P at [n1,n1] and [n2,n2] and -P
\* at [n1,n2] and [n2,n1], and the differential matrix the same sum of dP.
C9_PermeanceStamp ==
    Assembled =>
        \A ij \in PermeanceEntries :
            /\ ij \in DOMAIN result.A
            /\ result.A[ij] = RefPermeanceA(ij[1], ij[2])
            /\ result.dA[ij] = RefPermeanceDA(ij[1], ij[2])

\* C10, on circuits that contain the ground node: the matrices of an
\* assembled system equal the additive reference stamp of all permeances and
\* of every MMF source at its auxiliary index k, and the right-hand side
\* before the residual adjustment has b[k] = value.
C10_MMFStamp ==
    (Assembled /\ gnd \in DOMAIN nodes_dict.s) =>
        /\ Len(result.aux) = Len(MMFSources)
        /\ \A i, j \in 0..(result.n - 1) :
               /\ result.A[<<i, j>>]
                      = RAdd(RefPermeanceA(i, j), RefMMFA(result.aux, i, j))
               /\ result.dA[<<i, j>>]
                      = RAdd(RefPermeanceDA(i, j), RefMMFA(result.aux, i, j))
        /\ \A i \in 0..(result.n - 1) : result.b_src[i] = RefB(result.aux, i)

---------------------------------------------------------------------------
(* Elements outside the three kinds                                        *)

\* Component.__init__: an element of the base class, which is none of
\* Permeance, MMFSource, PHISource
Component(part_id, n1, n2) ==
    [kind |-> "Component", part_id |-> part_id, n1 |-> n1, n2 |-> n2]

\* circ += [elem] on the list that Circuit is, the terminals resolved with
\* add_node as the netlist parser does
AppendComponent(part_id, n1, n2) ==
    LET r1 == add_node(nodes_dict, n1)
        r2 == add_node(r1.nd, n2)
    IN  /\ Len(elems) < MaxElems
        /\ nodes_dict' = r2.nd
        /\ elems' = Append(elems, Component(part_id, r1.ret, r2.ret))
        /\ result' = [op |-> "append", err |-> "none", ret |-> <<>>]
        /\ UNCHANGED models

---------------------------------------------------------------------------
(* Circuit.get_elem_by_name                                                *)

\* str.lower on the element identifiers
lower == [id \in PartIds |-> IF id = "R1" THEN "r1" ELSE id]

\* Circuit.get_elem_by_name: the first element whose lowered part_id equals
\* the lowered argument, or ValueError
get_elem_by_name(es, part_id) ==
    LET hits == {i \in 1..Len(es) : lower[es[i].part_id] = lower[part_id]}
    IN  IF hits = {} THEN [err |-> "ValueError", ret |-> <<>>]
        ELSE [err |-> "none",
              ret |-> <<es[CHOOSE i \in hits : \A k \in hits : i <= k]>>]

---------------------------------------------------------------------------
(* numpy.linalg                                                            *)

\* The sequence s without its j-th entry
Without(s, j) == [k \in 1..(Len(s) - 1) |-> IF k < j THEN s[k] ELSE s[k + 1]]

\* The indices 0 .. n-1 of an axis, in order
Indices(n) == [k \in 1..n |-> k - 1]

\* Determinant of the submatrix of M on the given rows and columns, expanded
\* along its first row; 1 for the empty matrix
RECURSIVE Det(_, _, _)
Det(M, rows, cols) ==
    IF rows = <<>> THEN ROne
    ELSE RSum([j \in 1..Len(cols) |->
                  IF M[<<rows[1], cols[j]>>] = RZero THEN RZero
                  ELSE RMul(RMul(RInt(IF j % 2 = 1 THEN 1 ELSE -1),
                                 M[<<rows[1], cols[j]>>]),
                            Det(M, Tail(rows), Without(cols, j)))],
              Len(cols))

\* M with column i replaced by the vector b
ReplaceCol(M, i, b, n) ==
    [rc \in (0..(n - 1)) \X (0..(n - 1)) |-> IF rc[2] = i THEN b[rc[1]] ELSE M[rc]]

\* np.linalg.solve(J, b): the exact solution, or LinAlgError for a singular J
linalg_solve(J, b, n) ==
    LET d == Det(J, Indices(n), Indices(n))
    IN  IF d = RZero THEN [err |-> "LinAlgError", x |-> Zeros(n)]
        ELSE [err |-> "none",
              x |-> [i \in 0..(n - 1) |->
                        RDiv(Det(ReplaceCol(J, i, b, n), Indices(n), Indices(n)), d)]]

\* np.linalg.norm(v) squared
norm2(v, n) == RSum([k \in 1..n |-> RMul(v[k - 1], v[k - 1])], n)

\* J.dot(v)
MatVec(J, v, n) ==
    [i \in 0..(n - 1) |-> RSum([k \in 1..n |-> RMul(J[<<i, k - 1>>], v[k - 1])], n)]

---------------------------------------------------------------------------
(* analysis.solve_circuit                                                  *)
(* A run of solve_circuit is the record held by result while the call is   *)
(* in progress (pc = "loop") and after it has ended (pc = "done"): gamma,  *)
(* the size n, x, iter, norm, and of the last pass x_prev (the x it        *)
(* assembled at), dx and the tested err.  Norms are held by their squares; *)
(* passes counts the passes made, and e0 remembers the squared norm of dx  *)
(* at the first pass.                                                      *)

\* if err < 0.001 or iter > 2000
IterCap == 2000

TolInv == 1000

\* The relaxation factors a caller passes
Gammas == {<<1, 1>>, <<1, 2>>}

\* err / norm of two non-negative floats given by their squares: a number
\* (squared), nan for 0/0, inf for a positive number over 0
quotient(e2, n2) ==
    IF n2 # RZero THEN [kind |-> "num", val |-> RDiv(e2, n2)]
    ELSE IF e2 = RZero THEN [kind |-> "nan", val |-> RZero]
    ELSE [kind |-> "inf", val |-> RZero]

\* err < 0.001, on the squared measure; false for nan and inf
below_tol(e) ==
    e.kind = "num" /\ e.val[1] <= (e.val[2] - 1) \div (TolInv * TolInv)

\* The update of x that ignores gamma
next_x_undamped(x, dx, gamma, iter, n) ==
    IF iter = 0 THEN dx ELSE [i \in 0..(n - 1) |-> RAdd(x[i], dx[i])]

\* if iter == 0: x = dx else: x = x + gamma * dx
next_x(x, dx, gamma, iter, n) ==
    IF iter = 0 THEN dx ELSE [i \in 0..(n - 1) |-> RAdd(x[i], RMul(gamma, dx[i]))]

\* The divisor that is the stored norm at every pass, the first included
divisor_stored(norm, e2, iter) == norm

\* if iter == 0: norm = err -- the (squared) divisor of err / norm
divisor(norm, e2, iter) == IF iter = 0 THEN e2 ELSE norm

\* The loop test with the cap one pass later
stop_late(e, iter) == below_tol(e) \/ iter > IterCap + 1

\* if err < 0.001 or iter > 2000: break
stop(e, iter) == below_tol(e) \/ iter > IterCap

\* solve_circuit, step 1: n_matrix_size, x = np.zeros((n_matrix_size, 1))
\* (ValueError for a negative size), norm = 0, iter = 0
solve_init(nd, es, gamma) ==
    LET n == n_matrix_size(nd, es)
    IN  [op |-> "solve_circuit", pc |-> IF n < 0 THEN "done" ELSE "loop",
         err |-> IF n < 0 THEN "ValueError" ELSE "none", ret |-> <<>>,
         gamma |-> gamma, n |-> n, x |-> Zeros(n), iter |-> 0, norm |-> RZero,
         x_prev |-> Zeros(n), dx |-> Zeros(n), e |-> quotient(RZero, RZero),
         passes |-> 0, e0 |-> RZero, bug |-> FALSE]

\* The call ends with the exception err raised in a pass
solve_raise(st, err, bug) ==
    [st EXCEPT !.pc = "done", !.err = err, !.passes = @ + 1, !.x_prev = st.x,
               !.bug = bug]

\* One pass of the loop after make_system_matrix returned (J, b): the linear
\* solve, the update of x, the error measure, the loop test
solve_pass(st, J, b, bug) ==
    LET s == linalg_solve(J, b, st.n)
        x == next_x(st.x, s.x, st.gamma, st.iter, st.n)
        e2 == norm2(s.x, st.n)
        e == quotient(e2, divisor(st.norm, e2, st.iter))
        brk == stop(e, st.iter)
    IN  IF s.err # "none" THEN solve_raise(st, s.err, bug)
        ELSE [st EXCEPT !.x = x, !.x_prev = st.x, !.dx = s.x, !.e = e,
                        !.norm = norm2(x, st.n),
                        !.e0 = IF st.iter = 0 THEN e2 ELSE @,
                        !.passes = @ + 1, !.bug = bug,
                        !.pc = IF brk THEN "done" ELSE "loop",
                        !.iter = IF brk THEN @ ELSE @ + 1,
                        !.ret = IF brk THEN <<x>> ELSE <<>>]

\* A solve_circuit call is in progress
Solving == "pc" \in DOMAIN result /\ result.pc = "loop"

\* solve_circuit(circ, gamma) is called
SolveStart(gamma) ==
    /\ ~Solving
    /\ result' = solve_init(nodes_dict, elems, gamma)
    /\ UNCHANGED <<nodes_dict, elems, models>>

\* One pass of the loop of solve_circuit
SolvePass ==
    /\ Solving
    /\ \E r \in {make_system_matrix(nodes_dict, elems, models, result.x, result.n)} :
         /\ elems' = r.elems
         /\ \E st \in {IF r.err # "none" THEN solve_raise(result, r.err, r.bug)
                       ELSE solve_pass(result, r.dA, r.b, r.bug)} :
              result' = st
    /\ UNCHANGED <<nodes_dict, models>>

\* The circuits of the solver runs: every element between node a and ground,
\* of one geometry with P = mur
SolveGeometry == <<100, 10, 1000>>

SolveSourceValues == {0, 2}

NextSolve ==
    \/ ~Solving /\ AddModel("BH", "m1", GoodFile)
    \/ ~Solving /\ RemoveModel("m1")
    \/ \E lab \in ModelLabels \cup {None} :
           ~Solving /\ AddPermeance("R1", "a", gnd, 1, SolveGeometry[1], SolveGeometry[2],
                                    SolveGeometry[3], lab)
    \/ \E v \in SolveSourceValues : ~Solving /\ AddMMFSource("R1", "a", gnd, v)
    \/ \E gamma \in Gammas : SolveStart(gamma)
    \/ SolvePass

SpecSolve == Init /\ [][NextSolve]_vars

\* Circuits that hold elements of the base class
NextUnknown ==
    \/ ~Solving /\ AddPermeance("R1", "a", gnd, 1, SolveGeometry[1], SolveGeometry[2],
                                SolveGeometry[3], None)
    \/ ~Solving /\ AddMMFSource("R1", "a", gnd, 2)
    \/ ~Solving /\ AppendComponent("R1", "a", gnd)
    \/ SolveStart(ROne)
    \/ SolvePass

SpecUnknown == Init /\ [][NextUnknown]_vars

\* Linear circuits with flux sources
FluxTermPairs == {<<"a", "0">>, <<"a", "b">>, <<"b", "0">>}

NextFlux ==
    \/ \E t \in FluxTermPairs :
           ~Solving /\ AddPermeance("R1", t[1], t[2], 1, SolveGeometry[1], SolveGeometry[2],
                                    SolveGeometry[3], None)
    \/ \E t \in FluxTermPairs : ~Solving /\ AddPHISource("R1", t[1], t[2], 2)
    \/ \E t \in FluxTermPairs : ~Solving /\ AddMMFSource("R1", t[1], t[2], 2)
    \/ SolveStart(ROne)
    \/ SolvePass

SpecFlux == Init /\ [][NextFlux]_vars

---------------------------------------------------------------------------
(* Properties of the solver and of the remaining circuit methods           *)

\* The last call is a solve_circuit run
InSolve == result.op = "solve_circuit" /\ "pc" \in DOMAIN result

\* An element of the list is none of Permeance, MMFSource, PHISource
HasUnknownElem ==
    \E i \in 1..Len(elems) : elems[i].kind \notin {"Permeance", "MMFSource", "PHISource"}

\* C11: when the element list holds an element that is none of Permeance,
\* MMFSource, PHISource, every pass of solve_circuit ends the call with an
\* exception: no pass goes on with a (J, b) pair assembled as if the element
\* were absent, and solve_circuit returns no potential vector.
C11_UnknownElemReported ==
    (InSolve /\ HasUnknownElem /\ result.passes >= 1) =>
        (result.pc = "done" /\ result.err # "none")

\* C12: x starts as the zero vector; after the first pass x = dx, after every
\* later pass x = x_prev + gamma * dx, where J * dx = b for the (J, b) that
\* make_system_matrix assembles at x_prev.
C12_UpdateRule ==
    InSolve =>
        /\ (result.passes = 0 /\ result.n >= 0) => result.x = Zeros(result.n)
        /\ (result.passes >= 1 /\ result.err = "none") =>
               LET r == make_system_matrix(nodes_dict, elems, models, result.x_prev,
                                           result.n)
               IN  /\ r.err = "none"
                   /\ MatVec(r.dA, result.dx, result.n) = r.b
                   /\ result.x =
                          IF result.passes = 1 THEN result.dx
                          ELSE [i \in 0..(result.n - 1) |->
                                   RAdd(result.x_prev[i],
                                        RMul(result.gamma, result.dx[i]))]

\* C12 witness: a later pass of a run with gamma = 1/2 has made a non-zero
\* increment.
C12_Witness ==
    /\ InSolve
    /\ result.err = "none"
    /\ result.passes >= 2
    /\ result.gamma = <<1, 2>>
    /\ result.dx # Zeros(result.n)

\* C13: the measure tested after every pass is norm(dx) / e0 with e0 the norm
\* of dx at the first pass, and the run has stopped below the cap exactly
\* when that measure is below 0.001.
C13_FixedReference ==
    (InSolve /\ result.passes >= 1 /\ result.err = "none") =>
        LET e == quotient(norm2(result.dx, result.n), result.e0)
        IN  /\ result.e = e
            /\ result.iter <= IterCap => (result.pc = "done" <=> below_tol(e))

\* The run has ended without an error and without meeting the tolerance
Exhausted ==
    InSolve /\ result.pc = "done" /\ result.err = "none" /\ ~below_tol(result.e)

\* No run makes more passes than the cap allows; a run that ends without an
\* error returns its last x; one that ends without meeting the tolerance does
\* so at the first pass whose counter exceeds the cap.
PassesBounded ==
    InSolve =>
        /\ result.passes <= IterCap + 2
        /\ result.iter <= IterCap + 1
        /\ (result.pc = "done" /\ result.err = "none") => result.ret = <<result.x>>
        /\ Exhausted => (result.iter = IterCap + 1 /\ result.passes = IterCap + 2)

\* While a run is in progress a step is one pass: it raises the pass count
\* by one and either ends the run or raises iter by one
PassProgress ==
    Solving =>
        /\ result'.op = "solve_circuit"
        /\ result'.passes = result.passes + 1
        /\ result'.pc = "done" \/ (result'.pc = "loop" /\ result'.iter = result.iter + 1)

LinearOneMMF ==
    /\ \A i \in 1..Len(elems) :
           elems[i].kind = "Permeance" => elems[i].model_label = None
    /\ Len(Permeances) >= 1
    /\ Len(MMFSources) = 1

\* C15: a run on a circuit of unbound permeances and exactly one MMF source
\* whose linear solves succeed stops with err < 0.001 after at most 2 passes.
C15_LinearTwoPasses ==
    (InSolve /\ LinearOneMMF /\ result.err = "none") =>
        /\ result.passes <= 2
        /\ result.passes = 2 => (result.pc = "done" /\ below_tol(result.e))

\* The run has ended with err < 0.001
Converged ==
    InSolve /\ result.pc = "done" /\ result.err = "none" /\ below_tol(result.e)

\* The flux of element i from n1 to n2 at the solved x: PHI(x) of a
\* permeance, the value of a flux source, the auxiliary unknown of an MMF
\* source
BranchFlux(i) ==
    IF elems[i].kind = "Permeance" THEN PHI(elems[i], result.x, result.n).val
    ELSE IF elems[i].kind = "PHISource" THEN RInt(elems[i].value)
    ELSE result.x[get_nodes_number(nodes_dict) - 1
                  + Cardinality({q \in 1..(i - 1) : elems[q].kind = "MMFSource"})]

\* The signed sum at node k of the fluxes of its incident branches, a flux
\* from n1 to n2 leaving n1 and entering n2
NodeBalance(k) ==
    RSum([i \in 1..Len(elems) |->
             RMul(RInt(Ind(elems[i].n1 = k) - Ind(elems[i].n2 = k)), BranchFlux(i))],
         Len(elems))

\* C16, on circuits with the ground node whose MMF sources join two different
\* nodes: at a converged x the signed sum of the branch fluxes is zero at
\* every node.
C16_FluxConservation ==
    (Converged /\ gnd \in DOMAIN nodes_dict.s
       /\ \A i \in 1..Len(elems) : elems[i].n1 # elems[i].n2) =>
        \A k \in DOMAIN nodes_dict.i : NodeBalance(k) = RZero

\* Element f is element e, up to mur and mur_d if e is a bound permeance
SameButMur(e, f) ==
    IF e.kind = "Permeance" /\ e.model_label # None
    THEN f = [e EXCEPT !.mur = f.mur, !.mur_d = f.mur_d]
    ELSE f = e

\* A step leaves the node map, the registry, and the element list up to mur
\* and mur_d of bound permeances unchanged
SolveFrame ==
    /\ nodes_dict' = nodes_dict
    /\ models' = models
    /\ Len(elems') = Len(elems)
    /\ \A i \in 1..Len(elems) : SameButMur(elems[i], elems'[i])

\* Every unbound permeance has the mur its caller gave and mur_d = mur
LinearKeep ==
    \A i \in 1..Len(elems) :
        (elems[i].kind = "Permeance" /\ elems[i].model_label = None) =>
            (elems[i].mur \in {RInt(m) : m \in MurValues} /\ elems[i].mur_d = elems[i].mur)

\* C17: every step of a solve_circuit call, one that aborts included, leaves
\* the element list and its order, the terminals and geometry of every
\* element, the node map and the registry unchanged; it writes only mur and
\* mur_d of bound permeances, and unbound ones keep mur and mur_d = mur.
C17_SolveFrame ==
    [][result'.op = "solve_circuit" => SolveFrame]_vars /\ []LinearKeep

\* C17 witness: after a pass a bound permeance has a mur other than the one
\* its caller gave, next to an unbound permeance.
C17_Witness ==
    /\ InSolve
    /\ result.passes >= 1
    /\ \E i \in 1..Len(elems) :
           /\ elems[i].kind = "Permeance"
           /\ elems[i].model_label # None
           /\ elems[i].mur \notin {RInt(m) : m \in MurValues}
    /\ \E i \in 1..Len(elems) :
           elems[i].kind = "Permeance" /\ elems[i].model_label = None

\* C18: an add_permeance call that raises leaves the node map, the element
\* list and the registry as they were before the call.
C18_FailedAddPermeanceNoEffect ==
    [][(result'.op = "add_permeance" /\ result'.err # "none") =>
           (nodes_dict' = nodes_dict /\ elems' = elems /\ models' = models)]_vars

\* C19: in a circuit without duplicate identifiers get_elem_by_name(e.part_id)
\* returns e for every element e, and get_elem_by_name raises ValueError
\* exactly for the identifiers that no element matches.
C19_LookupFindsElement ==
    /\ ~has_duplicate_elem(elems) =>
           \A i \in 1..Len(elems) :
               get_elem_by_name(elems, elems[i].part_id)
                   = [err |-> "none", ret |-> <<elems[i]>>]
    /\ \A id \in PartIds :
           get_elem_by_name(elems, id).err = "ValueError"
               <=> \A i \in 1..Len(elems) : lower[elems[i].part_id] # lower[id]

\* C20: the error tested at the first pass is 1, or nan when dx = 0, and the
\* loop goes on; a run that returns has made at least 2 passes.
C20_AtLeastTwoPasses ==
    InSolve =>
        /\ (result.passes = 1 /\ result.err = "none") =>
               /\ result.pc = "loop"
               /\ result.e = [kind |-> "num", val |-> ROne] \/ result.e.kind = "nan"
        /\ (result.pc = "done" /\ result.err = "none") => result.passes >= 2

\* C20 witness: a run has returned after exactly 2 passes, its first
\* increment non-zero.
C20_Witness == Converged /\ result.passes = 2 /\ result.e0 # RZero

===========================================================================
